---------------------------- MODULE Spec2Model ----------------------------
(***************************************************************************)
(* Model of the recursive-descent parser of src/src/parser.rs.             *)
(*                                                                         *)
(* The Parser struct (tokens, current) is the state.  The call stack of    *)
(* the recursive descent is explicit: a frame is [fn, pc, loc] where fn is *)
(* the Rust function, pc the point it will resume at and loc its locals.   *)
(* `ret` is the value the last returning function handed to its caller.    *)
(* One action models one segment of a function between two calls.  The     *)
(* leaf functions of the cursor (current_token, advance, expect,           *)
(* skip_newlines) and parse_primary / parse_comparison_operator call       *)
(* nothing that is modelled as a frame and are operators.                  *)
(***************************************************************************)
EXTENDS Naturals, Sequences, FiniteSets

VARIABLES tokens, current, stack, ret

vars == <<tokens, current, stack, ret>>

(***************************************************************************)
(* Bounds of the model.                                                    *)
(***************************************************************************)
MaxLen == 2
MaxOps == 2
MaxBody == 1
MaxParams == 2
CursorMaxLen == 3

(***************************************************************************)
(* lexer::Token, as used by the parser: a kind (the discriminant) and a    *)
(* payload, "" for the kinds that carry none.                              *)
(***************************************************************************)
Tok(kind) == [k |-> kind, v |-> ""]
TokenIdentifier(name) == [k |-> "Identifier", v |-> name]
TokenNumber(n) == [k |-> "Number", v |-> n]
TokenString(s) == [k |-> "String", v |-> s]

ComparisonKinds ==
    {"IsGreaterThan", "IsLessThan", "IsGreaterThanOrEqual",
     "IsLessThanOrEqual", "IsEqual", "IsNotEqual"}

PlainKinds ==
    {"Eof", "Newline", "Indent", "Dedent", "Let", "Be", "Show", "When",
     "Then", "Otherwise", "Define", "With", "End",
     "Plus", "Minus", "Multiply", "Divide"} \cup ComparisonKinds

(***************************************************************************)
(* ast::*                                                                  *)
(***************************************************************************)
ExprNumber(n) == [type |-> "Number", val |-> n]
ExprString(s) == [type |-> "String", val |-> s]
ExprIdentifier(name) == [type |-> "Identifier", val |-> name]
BinaryOp(l, op, r) ==
    [type |-> "BinaryOp", left |-> l, operator |-> op, right |-> r]

None == [tag |-> "None"]
Some(x) == [tag |-> "Some", val |-> x]

StmtLet(id, value) == [type |-> "Let", identifier |-> id, value |-> value]
StmtShow(value) == [type |-> "Show", value |-> value]
StmtWhen(c, t, o) ==
    [type |-> "When", condition |-> c, then_block |-> t, otherwise_block |-> o]
StmtFunctionDef(name, ps, body) ==
    [type |-> "FunctionDef", name |-> name, parameters |-> ps, body |-> body]
StmtExpression(e) == [type |-> "Expression", expr |-> e]
Program(stmts) == [type |-> "Program", statements |-> stmts]

(***************************************************************************)
(* Result<T, String>.  An error string is kept as its format string and    *)
(* the tokens formatted into it with {:?}.                                 *)
(***************************************************************************)
Ok(x) == [ok |-> TRUE, val |-> x]
Err(form, args) == [ok |-> FALSE, form |-> form, args |-> args]
Unit == <<>>

ExpectedFound == "Expected {:?}, found {:?}"
ExpectedIdentifierAfterLet == "Expected identifier after 'let'"
ExpectedFunctionName == "Expected function name after 'define'"
UnexpectedToken == "Unexpected token in expression: {:?}"

(***************************************************************************)
(* The cursor.  `current` is the 0-based index of the Rust code.           *)
(***************************************************************************)
TokenAt(cur) == IF cur < Len(tokens) THEN tokens[cur + 1] ELSE Tok("Eof")

current_token == TokenAt(current)

\* advance() without the bound check.
advance_unchecked(cur) == cur + 1

advance(cur) == IF cur < Len(tokens) THEN cur + 1 ELSE cur

\* expect() comparing whole tokens, payload included.
expect_whole_token(cur, expected) ==
    IF TokenAt(cur) = expected
    THEN [res |-> Ok(Unit), cur |-> advance(cur)]
    ELSE [res |-> Err(ExpectedFound, <<expected, TokenAt(cur)>>), cur |-> cur]

\* expect() moving past the mismatched token before it reports.
expect_advance_first(cur, expected) ==
    IF TokenAt(cur).k = expected.k
    THEN [res |-> Ok(Unit), cur |-> advance(cur)]
    ELSE [res |-> Err(ExpectedFound, <<expected, TokenAt(cur)>>),
          cur |-> advance(cur)]

expect(cur, expected) ==
    IF TokenAt(cur).k = expected.k
    THEN [res |-> Ok(Unit), cur |-> advance(cur)]
    ELSE [res |-> Err(ExpectedFound, <<expected, TokenAt(cur)>>), cur |-> cur]

RECURSIVE skip_newlines(_)
skip_newlines(cur) ==
    IF TokenAt(cur).k = "Newline" THEN skip_newlines(advance(cur)) ELSE cur

(***************************************************************************)
(* The two leaves of the expression engine.                                *)
(***************************************************************************)
\* parse_primary() that forgets to advance past an identifier.
parse_primary_no_advance(cur) ==
    LET t == TokenAt(cur) IN
    CASE t.k = "Number" -> [res |-> Ok(ExprNumber(t.v)), cur |-> advance(cur)]
      [] t.k = "String" -> [res |-> Ok(ExprString(t.v)), cur |-> advance(cur)]
      [] t.k = "Identifier" -> [res |-> Ok(ExprIdentifier(t.v)), cur |-> cur]
      [] OTHER -> [res |-> Err(UnexpectedToken, <<t>>), cur |-> cur]

parse_primary(cur) ==
    LET t == TokenAt(cur) IN
    CASE t.k = "Number" -> [res |-> Ok(ExprNumber(t.v)), cur |-> advance(cur)]
      [] t.k = "String" -> [res |-> Ok(ExprString(t.v)), cur |-> advance(cur)]
      [] t.k = "Identifier" ->
            [res |-> Ok(ExprIdentifier(t.v)), cur |-> advance(cur)]
      [] OTHER -> [res |-> Err(UnexpectedToken, <<t>>), cur |-> cur]

ComparisonOperatorOf(kind) ==
    CASE kind = "IsGreaterThan" -> "GreaterThan"
      [] kind = "IsLessThan" -> "LessThan"
      [] kind = "IsGreaterThanOrEqual" -> "GreaterThanOrEqual"
      [] kind = "IsLessThanOrEqual" -> "LessThanOrEqual"
      [] kind = "IsEqual" -> "Equal"
      [] kind = "IsNotEqual" -> "NotEqual"

parse_comparison_operator(cur) ==
    IF TokenAt(cur).k \in ComparisonKinds
    THEN [op |-> Some(ComparisonOperatorOf(TokenAt(cur).k)), cur |-> advance(cur)]
    ELSE [op |-> None, cur |-> cur]

(***************************************************************************)
(* The call stack.                                                         *)
(***************************************************************************)
Frame(fn) == [fn |-> fn, pc |-> "start", loc |-> <<>>]
Top == stack[Len(stack)]
At(fn, pc) == stack # <<>> /\ Top.fn = fn /\ Top.pc = pc
Resume(pc, loc) == [stack EXCEPT ![Len(stack)] = [fn |-> Top.fn, pc |-> pc, loc |-> loc]]
Call(pc, loc, callee) == Append(Resume(pc, loc), Frame(callee))
Pop == SubSeq(stack, 1, Len(stack) - 1)
NoRet == Ok(Unit)


(***************************************************************************)
(* Parser::parse.  `mark` is the cursor position at which the iteration in *)
(* progress found the loop condition true (a history field, in no Rust     *)
(* local).                                                                 *)
(***************************************************************************)
parse_start ==
    /\ At("parse", "start")
    /\ current' = skip_newlines(current)
    /\ stack' = Resume("loop", [statements |-> <<>>, mark |-> 0])
    /\ UNCHANGED <<tokens, ret>>

parse_loop ==
    /\ At("parse", "loop")
    /\ IF current_token.k # "Eof"
       THEN /\ stack' = Call("push", [Top.loc EXCEPT !.mark = current],
                             "parse_statement")
            /\ ret' = NoRet
       ELSE /\ stack' = Pop
            /\ ret' = Ok(Program(Top.loc.statements))
    /\ UNCHANGED <<tokens, current>>

parse_push ==
    /\ At("parse", "push")
    /\ IF ~ret.ok
       THEN /\ stack' = Pop
            /\ UNCHANGED <<current, ret>>
       ELSE /\ stack' = Resume("loop",
                   [Top.loc EXCEPT !.statements = Append(@, ret.val)])
            /\ current' = skip_newlines(current)
            /\ ret' = NoRet
    /\ UNCHANGED tokens

(***************************************************************************)
(* Parser::parse_statement                                                 *)
(***************************************************************************)
StatementParser(kind) ==
    CASE kind = "Let" -> "parse_let_statement"
      [] kind = "Show" -> "parse_show_statement"
      [] kind = "When" -> "parse_when_statement"
      [] kind = "Define" -> "parse_function_def"
      [] OTHER -> "parse_expression"

parse_statement_start ==
    /\ At("parse_statement", "start")
    /\ stack' = Call("ret", [callee |-> StatementParser(current_token.k)],
                     StatementParser(current_token.k))
    /\ UNCHANGED <<tokens, current, ret>>

parse_statement_ret ==
    /\ At("parse_statement", "ret")
    /\ stack' = Pop
    /\ ret' = IF Top.loc.callee = "parse_expression" /\ ret.ok
              THEN Ok(StmtExpression(ret.val))
              ELSE ret
    /\ UNCHANGED <<tokens, current>>

(***************************************************************************)
(* Parser::parse_let_statement                                             *)
(***************************************************************************)
parse_let_statement_start ==
    /\ At("parse_let_statement", "start")
    /\ LET e1 == expect(current, Tok("Let"))
           t == TokenAt(e1.cur)
           e2 == expect(advance(e1.cur), Tok("Be"))
       IN  IF ~e1.res.ok
           THEN stack' = Pop /\ ret' = e1.res /\ current' = e1.cur
           ELSE IF t.k # "Identifier"
           THEN /\ stack' = Pop
                /\ ret' = Err(ExpectedIdentifierAfterLet, <<>>)
                /\ current' = e1.cur
           ELSE IF ~e2.res.ok
           THEN stack' = Pop /\ ret' = e2.res /\ current' = e2.cur
           ELSE /\ stack' = Call("value", [identifier |-> t.v],
                                 "parse_expression")
                /\ ret' = NoRet
                /\ current' = e2.cur
    /\ UNCHANGED tokens

parse_let_statement_value ==
    /\ At("parse_let_statement", "value")
    /\ stack' = Pop
    /\ ret' = IF ret.ok THEN Ok(StmtLet(Top.loc.identifier, ret.val)) ELSE ret
    /\ UNCHANGED <<tokens, current>>

(***************************************************************************)
(* Parser::parse_show_statement                                            *)
(***************************************************************************)
parse_show_statement_start ==
    /\ At("parse_show_statement", "start")
    /\ LET e == expect(current, Tok("Show"))
       IN  IF ~e.res.ok
           THEN stack' = Pop /\ ret' = e.res /\ current' = e.cur
           ELSE /\ stack' = Call("value", <<>>, "parse_expression")
                /\ ret' = NoRet
                /\ current' = e.cur
    /\ UNCHANGED tokens

parse_show_statement_value ==
    /\ At("parse_show_statement", "value")
    /\ stack' = Pop
    /\ ret' = IF ret.ok THEN Ok(StmtShow(ret.val)) ELSE ret
    /\ UNCHANGED <<tokens, current>>

(***************************************************************************)
(* Parser::parse_expression                                                *)
(***************************************************************************)
parse_expression_start ==
    /\ At("parse_expression", "start")
    /\ stack' = Call("ret", <<>>, "parse_comparison")
    /\ UNCHANGED <<tokens, current, ret>>

parse_expression_ret ==
    /\ At("parse_expression", "ret")
    /\ stack' = Pop
    /\ UNCHANGED <<tokens, current, ret>>

(***************************************************************************)
(* Parser::parse_comparison                                                *)
(***************************************************************************)
parse_comparison_start ==
    /\ At("parse_comparison", "start")
    /\ stack' = Call("left", <<>>, "parse_arithmetic")
    /\ UNCHANGED <<tokens, current, ret>>

parse_comparison_left ==
    /\ At("parse_comparison", "left")
    /\ IF ~ret.ok
       THEN stack' = Pop /\ UNCHANGED ret
       ELSE /\ stack' = Resume("loop", [left |-> ret.val, op |-> ""])
            /\ ret' = NoRet
    /\ UNCHANGED <<tokens, current>>

parse_comparison_loop ==
    /\ At("parse_comparison", "loop")
    /\ LET o == parse_comparison_operator(current)
       IN  IF o.op # None
           THEN /\ stack' = Call("right", [Top.loc EXCEPT !.op = o.op.val],
                                 "parse_arithmetic")
                /\ current' = o.cur
                /\ ret' = NoRet
           ELSE /\ stack' = Pop
                /\ ret' = Ok(Top.loc.left)
                /\ current' = o.cur
    /\ UNCHANGED tokens

parse_comparison_right ==
    /\ At("parse_comparison", "right")
    /\ IF ~ret.ok
       THEN stack' = Pop /\ UNCHANGED ret
       ELSE /\ stack' = Resume("loop",
                   [Top.loc EXCEPT !.left = BinaryOp(@, Top.loc.op, ret.val)])
            /\ ret' = NoRet
    /\ UNCHANGED <<tokens, current>>

(***************************************************************************)
(* Parser::parse_arithmetic                                                *)
(***************************************************************************)
\* Both additive operators mapped to Add.
ArithmeticOperatorOfAlwaysAdd(kind) == "Add"

ArithmeticOperatorOf(kind) == IF kind = "Plus" THEN "Add" ELSE "Subtract"

parse_arithmetic_start ==
    /\ At("parse_arithmetic", "start")
    /\ stack' = Call("left", <<>>, "parse_term")
    /\ UNCHANGED <<tokens, current, ret>>

parse_arithmetic_left ==
    /\ At("parse_arithmetic", "left")
    /\ IF ~ret.ok
       THEN stack' = Pop /\ UNCHANGED ret
       ELSE /\ stack' = Resume("loop", [left |-> ret.val, op |-> ""])
            /\ ret' = NoRet
    /\ UNCHANGED <<tokens, current>>

parse_arithmetic_loop ==
    /\ At("parse_arithmetic", "loop")
    /\ IF current_token.k \in {"Plus", "Minus"}
       THEN /\ stack' = Call("right",
                   [Top.loc EXCEPT !.op = ArithmeticOperatorOf(current_token.k)],
                   "parse_term")
            /\ current' = advance(current)
            /\ ret' = NoRet
       ELSE /\ stack' = Pop
            /\ ret' = Ok(Top.loc.left)
            /\ UNCHANGED current
    /\ UNCHANGED tokens

parse_arithmetic_right ==
    /\ At("parse_arithmetic", "right")
    /\ IF ~ret.ok
       THEN stack' = Pop /\ UNCHANGED ret
       ELSE /\ stack' = Resume("loop",
                   [Top.loc EXCEPT !.left = BinaryOp(@, Top.loc.op, ret.val)])
            /\ ret' = NoRet
    /\ UNCHANGED <<tokens, current>>

(***************************************************************************)
(* Parser::parse_term                                                      *)
(***************************************************************************)
TermOperatorOf(kind) == IF kind = "Multiply" THEN "Multiply" ELSE "Divide"

parse_term_start ==
    /\ At("parse_term", "start")
    /\ LET p == parse_primary(current)
       IN  IF ~p.res.ok
           THEN stack' = Pop /\ ret' = p.res /\ current' = p.cur
           ELSE /\ stack' = Resume("loop", [left |-> p.res.val])
                /\ ret' = NoRet
                /\ current' = p.cur
    /\ UNCHANGED tokens

parse_term_loop ==
    /\ At("parse_term", "loop")
    /\ IF current_token.k \in {"Multiply", "Divide"}
       THEN LET op == TermOperatorOf(current_token.k)
                p == parse_primary(advance(current))
            IN  IF ~p.res.ok
                THEN stack' = Pop /\ ret' = p.res /\ current' = p.cur
                ELSE /\ stack' = Resume("loop",
                            [left |-> BinaryOp(Top.loc.left, op, p.res.val)])
                     /\ ret' = NoRet
                     /\ current' = p.cur
       ELSE /\ stack' = Pop
            /\ ret' = Ok(Top.loc.left)
            /\ UNCHANGED current
    /\ UNCHANGED tokens

(***************************************************************************)
(* Parser::parse_when_statement                                            *)
(***************************************************************************)
parse_when_statement_start ==
    /\ At("parse_when_statement", "start")
    /\ LET e == expect(current, Tok("When"))
       IN  IF ~e.res.ok
           THEN stack' = Pop /\ ret' = e.res /\ current' = e.cur
           ELSE /\ stack' = Call("condition", <<>>, "parse_expression")
                /\ ret' = NoRet
                /\ current' = e.cur
    /\ UNCHANGED tokens

WhenLocals(condition) ==
    [condition |-> condition, then_block |-> <<>>,
     otherwise_statements |-> <<>>, mark |-> 0]

parse_when_statement_condition ==
    /\ At("parse_when_statement", "condition")
    /\ LET e == expect(current, Tok("Then"))
           c == skip_newlines(e.cur)
       IN  IF ~ret.ok
           THEN stack' = Pop /\ UNCHANGED <<ret, current>>
           ELSE IF ~e.res.ok
           THEN stack' = Pop /\ ret' = e.res /\ current' = e.cur
           ELSE IF TokenAt(c).k = "Indent"
           THEN /\ stack' = Resume("then_loop", WhenLocals(ret.val))
                /\ ret' = NoRet
                /\ current' = advance(c)
           ELSE /\ stack' = Resume("otherwise", WhenLocals(ret.val))
                /\ ret' = NoRet
                /\ current' = c
    /\ UNCHANGED tokens

\* The then-loop's terminators without `otherwise`.
ThenTerminatorsNoOtherwise == {"Dedent", "Eof"}

ThenTerminators == {"Dedent", "Otherwise", "Eof"}

parse_when_statement_then_loop ==
    /\ At("parse_when_statement", "then_loop")
    /\ IF current_token.k \notin ThenTerminators
       THEN /\ stack' = Call("then_push", [Top.loc EXCEPT !.mark = current],
                             "parse_statement")
            /\ UNCHANGED current
       ELSE /\ stack' = Resume("otherwise", Top.loc)
            /\ current' = IF current_token.k = "Dedent"
                          THEN advance(current) ELSE current
    /\ UNCHANGED <<tokens, ret>>

parse_when_statement_then_push ==
    /\ At("parse_when_statement", "then_push")
    /\ IF ~ret.ok
       THEN stack' = Pop /\ UNCHANGED <<ret, current>>
       ELSE /\ stack' = Resume("then_loop",
                   [Top.loc EXCEPT !.then_block = Append(@, ret.val)])
            /\ current' = skip_newlines(current)
            /\ ret' = NoRet
    /\ UNCHANGED tokens

\* An `otherwise` with no indented block reported as an absent clause.
parse_when_statement_otherwise_conflated ==
    /\ At("parse_when_statement", "otherwise")
    /\ LET c == skip_newlines(advance(current))
       IN  IF current_token.k # "Otherwise"
           THEN /\ stack' = Pop
                /\ ret' = Ok(StmtWhen(Top.loc.condition, Top.loc.then_block, None))
                /\ UNCHANGED current
           ELSE IF TokenAt(c).k = "Indent"
           THEN /\ stack' = Resume("otherwise_loop", Top.loc)
                /\ current' = advance(c)
                /\ UNCHANGED ret
           ELSE /\ stack' = Pop
                /\ ret' = Ok(StmtWhen(Top.loc.condition, Top.loc.then_block, None))
                /\ current' = c
    /\ UNCHANGED tokens

parse_when_statement_otherwise ==
    /\ At("parse_when_statement", "otherwise")
    /\ LET c == skip_newlines(advance(current))
       IN  IF current_token.k # "Otherwise"
           THEN /\ stack' = Pop
                /\ ret' = Ok(StmtWhen(Top.loc.condition, Top.loc.then_block, None))
                /\ UNCHANGED current
           ELSE IF TokenAt(c).k = "Indent"
           THEN /\ stack' = Resume("otherwise_loop", Top.loc)
                /\ current' = advance(c)
                /\ UNCHANGED ret
           ELSE /\ stack' = Pop
                /\ ret' = Ok(StmtWhen(Top.loc.condition, Top.loc.then_block,
                                      Some(<<>>)))
                /\ current' = c
    /\ UNCHANGED tokens

\* The otherwise-loop's terminators with `end`, as in a function body.
OtherwiseTerminatorsWithEnd == {"Dedent", "Eof", "End"}

OtherwiseTerminators == {"Dedent", "Eof"}

parse_when_statement_otherwise_loop ==
    /\ At("parse_when_statement", "otherwise_loop")
    /\ IF current_token.k \notin OtherwiseTerminators
       THEN /\ stack' = Call("otherwise_push", [Top.loc EXCEPT !.mark = current],
                             "parse_statement")
            /\ UNCHANGED <<current, ret>>
       ELSE /\ stack' = Pop
            /\ ret' = Ok(StmtWhen(Top.loc.condition, Top.loc.then_block,
                                  Some(Top.loc.otherwise_statements)))
            /\ current' = IF current_token.k = "Dedent"
                          THEN advance(current) ELSE current
    /\ UNCHANGED tokens

parse_when_statement_otherwise_push ==
    /\ At("parse_when_statement", "otherwise_push")
    /\ IF ~ret.ok
       THEN stack' = Pop /\ UNCHANGED <<ret, current>>
       ELSE /\ stack' = Resume("otherwise_loop",
                   [Top.loc EXCEPT !.otherwise_statements = Append(@, ret.val)])
            /\ current' = skip_newlines(current)
            /\ ret' = NoRet
    /\ UNCHANGED tokens

(***************************************************************************)
(* Parser::parse_function_def                                              *)
(***************************************************************************)
FunctionLocals(name) ==
    [name |-> name, parameters |-> <<>>, body |-> <<>>, mark |-> 0]

parse_function_def_start ==
    /\ At("parse_function_def", "start")
    /\ LET e == expect(current, Tok("Define"))
           t == TokenAt(e.cur)
           c == advance(e.cur)
       IN  IF ~e.res.ok
           THEN stack' = Pop /\ ret' = e.res /\ current' = e.cur
           ELSE IF t.k # "Identifier"
           THEN /\ stack' = Pop
                /\ ret' = Err(ExpectedFunctionName, <<>>)
                /\ current' = e.cur
           ELSE IF TokenAt(c).k = "With"
           THEN /\ stack' = Resume("parameters", FunctionLocals(t.v))
                /\ current' = advance(c)
                /\ UNCHANGED ret
           ELSE /\ stack' = Resume("body", FunctionLocals(t.v))
                /\ current' = c
                /\ UNCHANGED ret
    /\ UNCHANGED tokens

parse_function_def_parameters ==
    /\ At("parse_function_def", "parameters")
    /\ IF current_token.k = "Identifier"
       THEN /\ stack' = Resume(
                   IF TokenAt(advance(current)).k = "Identifier"
                   THEN "parameters" ELSE "body",
                   [Top.loc EXCEPT !.parameters = Append(@, current_token.v)])
            /\ current' = advance(current)
       ELSE /\ stack' = Resume("body", Top.loc)
            /\ UNCHANGED current
    /\ UNCHANGED <<tokens, ret>>

\* The body read whether or not an indent marker opens it.
parse_function_def_body_no_indent_check ==
    /\ At("parse_function_def", "body")
    /\ LET c == skip_newlines(current)
       IN  /\ stack' = Resume("body_loop", Top.loc)
           /\ current' = IF TokenAt(c).k = "Indent" THEN advance(c) ELSE c
    /\ UNCHANGED <<tokens, ret>>

parse_function_def_body ==
    /\ At("parse_function_def", "body")
    /\ LET c == skip_newlines(current)
       IN  IF TokenAt(c).k = "Indent"
           THEN /\ stack' = Resume("body_loop", Top.loc)
                /\ current' = advance(c)
           ELSE /\ stack' = Resume("end", Top.loc)
                /\ current' = c
    /\ UNCHANGED <<tokens, ret>>

BodyTerminators == {"End", "Dedent", "Eof"}

parse_function_def_body_loop ==
    /\ At("parse_function_def", "body_loop")
    /\ IF current_token.k \notin BodyTerminators
       THEN /\ stack' = Call("body_push", [Top.loc EXCEPT !.mark = current],
                             "parse_statement")
            /\ UNCHANGED current
       ELSE /\ stack' = Resume("end", Top.loc)
            /\ current' = IF current_token.k = "Dedent"
                          THEN advance(current) ELSE current
    /\ UNCHANGED <<tokens, ret>>

parse_function_def_body_push ==
    /\ At("parse_function_def", "body_push")
    /\ IF ~ret.ok
       THEN stack' = Pop /\ UNCHANGED <<ret, current>>
       ELSE /\ stack' = Resume("body_loop",
                   [Top.loc EXCEPT !.body = Append(@, ret.val)])
            /\ current' = skip_newlines(current)
            /\ ret' = NoRet
    /\ UNCHANGED tokens

\* The function returned without consuming a trailing `end`.
parse_function_def_end_keeps_end ==
    /\ At("parse_function_def", "end")
    /\ stack' = Pop
    /\ ret' = Ok(StmtFunctionDef(Top.loc.name, Top.loc.parameters, Top.loc.body))
    /\ UNCHANGED <<tokens, current>>

parse_function_def_end ==
    /\ At("parse_function_def", "end")
    /\ stack' = Pop
    /\ ret' = Ok(StmtFunctionDef(Top.loc.name, Top.loc.parameters, Top.loc.body))
    /\ current' = IF current_token.k = "End" THEN advance(current) ELSE current
    /\ UNCHANGED tokens

(***************************************************************************)
(* The token sequences handed to Parser::new.                              *)
(***************************************************************************)
Alphabet ==
    {Tok(k) : k \in PlainKinds}
        \cup {TokenIdentifier("a"), TokenIdentifier("b"),
              TokenNumber("1"), TokenString("s")}

SeqsUpTo(S, n) == UNION {[1..m -> S] : m \in 0..n}

RECURSIVE Flatten(_)
Flatten(ss) == IF ss = <<>> THEN <<>> ELSE Head(ss) \o Flatten(Tail(ss))

Opt(b, toks) == IF b THEN toks ELSE <<>>

\* Any short token sequence, well-formed or not, at the top level, inside
\* a `let` and at statement position inside each kind of block.
Prefixes ==
    {<<>>,
     <<Tok("Let")>>,
     <<Tok("Let"), TokenIdentifier("a"), Tok("Be")>>,
     <<Tok("When"), TokenIdentifier("c"), Tok("Then"), Tok("Indent")>>,
     <<Tok("Define"), TokenIdentifier("f"), Tok("Indent")>>}
ShortAlphabet ==
    {t \in Alphabet : t.k \notin ComparisonKinds \ {"IsLessThan", "IsEqual"}}
ShortInputs == {p \o s : p \in Prefixes, s \in SeqsUpTo(ShortAlphabet, MaxLen)}

\* Primaries alternating with binary operators.
Numerals == <<"1", "2", "3", "4", "5", "6", "7", "8", "9">>
PrimaryAt(i) ==
    CASE i % 3 = 1 -> TokenNumber(Numerals[i])
      [] i % 3 = 2 -> TokenIdentifier(Numerals[i])
      [] OTHER -> TokenString(Numerals[i])
OperatorKinds == {"Plus", "Minus", "Multiply", "Divide"} \cup ComparisonKinds
ExpressionTokens(ops) ==
    [i \in 1..(2 * Len(ops) + 1) |->
        IF i % 2 = 1 THEN PrimaryAt((i + 1) \div 2) ELSE Tok(ops[i \div 2])]
ExpressionInputs == {ExpressionTokens(ops) : ops \in SeqsUpTo(OperatorKinds, MaxOps)}

\* Blocks: each line is a statement, or a stray `end`, and ends in a newline.
Lines ==
    {<<Tok("Show"), TokenIdentifier("a")>>,
     <<TokenIdentifier("b")>>,
     <<Tok("End")>>}
Bodies == SeqsUpTo(Lines, MaxBody)
BodyTokens(body) ==
    Flatten([i \in 1..Len(body) |-> body[i] \o <<Tok("Newline")>>])
Tails == {<<>>, <<TokenIdentifier("b"), Tok("Newline")>>}

WhenHead(nl, indent, body, dedent) ==
    <<Tok("When"), TokenIdentifier("c"), Tok("Then")>>
        \o Opt(nl, <<Tok("Newline")>>) \o Opt(indent, <<Tok("Indent")>>)
        \o BodyTokens(body) \o Opt(dedent, <<Tok("Dedent")>>)
OtherwiseClause(nl, indent, body, dedent) ==
    <<Tok("Otherwise")>>
        \o Opt(nl, <<Tok("Newline")>>) \o Opt(indent, <<Tok("Indent")>>)
        \o BodyTokens(body) \o Opt(dedent, <<Tok("Dedent")>>)
WhenInputs ==
    {WhenHead(nl, i1, b1, d1) \o tail :
        nl \in BOOLEAN, i1 \in BOOLEAN, b1 \in Bodies, d1 \in BOOLEAN,
        tail \in Tails}
    \cup
    {WhenHead(nl, i1, b1, d1) \o OtherwiseClause(nl, i2, b2, d2) :
        nl \in BOOLEAN, i1 \in BOOLEAN, b1 \in Bodies, d1 \in BOOLEAN,
        i2 \in BOOLEAN, b2 \in Bodies, d2 \in BOOLEAN}

ParameterTokens ==
    {TokenIdentifier("a"), TokenIdentifier("b")}
DefineTokens(with, ps, nl, indent, body, dedent, end) ==
    <<Tok("Define"), TokenIdentifier("f")>>
        \o Opt(with, <<Tok("With")>>) \o ps
        \o Opt(nl, <<Tok("Newline")>>) \o Opt(indent, <<Tok("Indent")>>)
        \o BodyTokens(body) \o Opt(dedent, <<Tok("Dedent")>>)
        \o Opt(end, <<Tok("End"), Tok("Newline")>>)
DefineInputs ==
    {DefineTokens(w, ps, nl, i, b, d, e) \o tail :
        w \in BOOLEAN, ps \in SeqsUpTo(ParameterTokens, MaxParams),
        nl \in BOOLEAN, i \in BOOLEAN, b \in Bodies, d \in BOOLEAN,
        e \in BOOLEAN, tail \in Tails}

\* A `when` nested as the last statement of a function body, followed by
\* the block closers in any order.
Closers == {Tok("End"), Tok("Dedent"), Tok("Otherwise"), Tok("Newline")}
NestedInputs ==
    {<<Tok("Define"), TokenIdentifier("f"), Tok("Newline"), Tok("Indent"),
       Tok("When"), TokenIdentifier("c"), Tok("Then"), Tok("Newline"),
       Tok("Indent"), Tok("Show"), TokenIdentifier("a"), Tok("Newline")>> \o cs :
        cs \in SeqsUpTo(Closers, MaxLen + 1)}

Inputs ==
    ShortInputs \cup ExpressionInputs \cup WhenInputs \cup DefineInputs
        \cup NestedInputs

(***************************************************************************)
(* Parser::new, with parse() entered.                                      *)
(***************************************************************************)
Init ==
    /\ tokens \in Inputs
    /\ current = 0
    /\ stack = <<Frame("parse")>>
    /\ ret = NoRet

Next ==
    \/ parse_start
    \/ parse_loop
    \/ parse_push
    \/ parse_statement_start
    \/ parse_statement_ret
    \/ parse_let_statement_start
    \/ parse_let_statement_value
    \/ parse_show_statement_start
    \/ parse_show_statement_value
    \/ parse_when_statement_start
    \/ parse_when_statement_condition
    \/ parse_when_statement_then_loop
    \/ parse_when_statement_then_push
    \/ parse_when_statement_otherwise
    \/ parse_when_statement_otherwise_loop
    \/ parse_when_statement_otherwise_push
    \/ parse_function_def_start
    \/ parse_function_def_parameters
    \/ parse_function_def_body
    \/ parse_function_def_body_loop
    \/ parse_function_def_body_push
    \/ parse_function_def_end
    \/ parse_expression_start
    \/ parse_expression_ret
    \/ parse_comparison_start
    \/ parse_comparison_left
    \/ parse_comparison_loop
    \/ parse_comparison_right
    \/ parse_arithmetic_start
    \/ parse_arithmetic_left
    \/ parse_arithmetic_loop
    \/ parse_arithmetic_right
    \/ parse_term_start
    \/ parse_term_loop

Spec == Init /\ [][Next]_vars

\* parse() has returned; `ret` is its result.
Done == stack = <<>>

(***************************************************************************)
(* The cursor driven directly: the four primitives called in any order on  *)
(* a parser no parse() is running on (a fresh one, or one whose parse()    *)
(* has returned).                                                          *)
(***************************************************************************)
CursorAlphabet ==
    {Tok("Eof"), Tok("Newline"), Tok("Let"), TokenIdentifier("a"),
     TokenIdentifier("b"), TokenNumber("1")}
CursorInputs == SeqsUpTo(CursorAlphabet, CursorMaxLen)
ExpectedTokens ==
    {Tok("Eof"), Tok("Newline"), Tok("Let"), Tok("Then"),
     TokenIdentifier("b"), TokenNumber("2")}

Idle == stack = <<>> /\ tokens \in CursorInputs

call_current_token ==
    /\ Idle
    /\ ret' = Ok(current_token)
    /\ UNCHANGED <<tokens, current, stack>>

call_advance ==
    /\ Idle
    /\ current' = advance(current)
    /\ ret' = Ok(TokenAt(advance(current)))
    /\ UNCHANGED <<tokens, stack>>

call_expect(expected) ==
    /\ Idle
    /\ current' = expect(current, expected).cur
    /\ ret' = expect(current, expected).res
    /\ UNCHANGED <<tokens, stack>>

call_skip_newlines ==
    /\ Idle
    /\ current' = skip_newlines(current)
    /\ ret' = Ok(Unit)
    /\ UNCHANGED <<tokens, stack>>

InitCursor ==
    /\ tokens \in CursorInputs
    /\ current = 0
    /\ stack = <<>>
    /\ ret = NoRet

NextCursor ==
    \/ Next
    \/ call_current_token
    \/ call_advance
    \/ \E expected \in ExpectedTokens : call_expect(expected)
    \/ call_skip_newlines

SpecCursor == (Init \/ InitCursor) /\ [][NextCursor]_vars

(***************************************************************************)
(* C1: the cursor position always satisfies 0 <= current <= len(tokens);   *)
(* current_token() returns the token at that position, or the end-of-input *)
(* token when current = len(tokens); advance() at current = len(tokens)    *)
(* leaves current unchanged and otherwise moves it by one, so no number of *)
(* advance() calls indexes past the last token.                            *)
(***************************************************************************)
C1_CursorInBounds ==
    /\ [](current \in 0..Len(tokens))
    /\ [][call_current_token =>
            ret'.val = IF current = Len(tokens)
                       THEN Tok("Eof") ELSE tokens[current + 1]]_vars
    /\ [][call_advance =>
            current' = IF current = Len(tokens)
                       THEN current ELSE current + 1]_vars

\* The cursor is at the end of a non-empty token sequence whose last token
\* is not end-of-input, and the last call (advance() or current_token())
\* returned the synthesized end-of-input token.
C1_Witness ==
    /\ stack = <<>>
    /\ tokens \in CursorInputs
    /\ Len(tokens) > 0
    /\ tokens[Len(tokens)].k # "Eof"
    /\ current = Len(tokens)
    /\ ret = Ok(Tok("Eof"))

(***************************************************************************)
(* C2: expect(kind) compares only the kind of the current token: on equal  *)
(* kinds it succeeds and the position moves forward by one (or stays when  *)
(* already at the end); on different kinds it returns an error naming the  *)
(* expected token and the token found, and the position is unchanged.      *)
(***************************************************************************)
C2_ExpectKindOnly ==
    [][\A expected \in ExpectedTokens :
        call_expect(expected) =>
            IF current_token.k = expected.k
            THEN /\ ret' = Ok(Unit)
                 /\ current' = IF current < Len(tokens)
                               THEN current + 1 ELSE current
            ELSE /\ ret' = Err(ExpectedFound, <<expected, current_token>>)
                 /\ current' = current]_vars

\* expect(Identifier("b")) has failed on `let`, the token after an
\* identifier: the error holds both tokens and the cursor is still on `let`.
C2_Witness ==
    /\ stack = <<>>
    /\ tokens \in CursorInputs
    /\ Len(tokens) = 2
    /\ tokens[1] = TokenIdentifier("a")
    /\ tokens[2] = Tok("Let")
    /\ current = 1
    /\ ~ret.ok
    /\ ret.args = <<TokenIdentifier("b"), Tok("Let")>>

(***************************************************************************)
(* parse() runs synchronously on one thread: a step that can be taken is   *)
(* taken.                                                                  *)
(***************************************************************************)
SpecFair == Spec /\ WF_vars(Next)

StatementLoopResumes ==
    {<<"parse", "push">>,
     <<"parse_when_statement", "then_push">>,
     <<"parse_when_statement", "otherwise_push">>,
     <<"parse_function_def", "body_push">>}

\* The statement of an iteration of a statement loop has just been parsed.
IterationParsed ==
    /\ stack # <<>>
    /\ <<Top.fn, Top.pc>> \in StatementLoopResumes
    /\ ret.ok

(***************************************************************************)
(* C3: for every token sequence parse() terminates with a Program or one   *)
(* error; an iteration of the program loop or of a block loop that parsed  *)
(* its statement has advanced the cursor, a step of the parameter loop or  *)
(* of an expression fold that stays in the loop has advanced the cursor,   *)
(* and the parse is never stuck before it returns.                         *)
(***************************************************************************)
C3_Terminates ==
    /\ <>Done
    /\ [](Done \/ ENABLED Next)
    /\ [](Done => IF ret.ok THEN ret.val.type = "Program"
                            ELSE ret.form \in STRING)
    /\ [](IterationParsed => current > Top.loc.mark)
    /\ [][parse_function_def_parameters /\ Top'.pc = "parameters"
            => current' > current]_vars
    /\ [][parse_term_loop /\ Len(stack') = Len(stack)
            => current' > current]_vars
    /\ [][(parse_arithmetic_loop \/ parse_comparison_loop)
            /\ Len(stack') > Len(stack)
            => current' > current]_vars

\* `let be 1`: parse() has returned the missing-identifier error, having
\* consumed only `let`.
C3_Witness ==
    /\ Done
    /\ tokens = <<Tok("Let"), Tok("Be"), TokenNumber("1")>>
    /\ ret = Err(ExpectedIdentifierAfterLet, <<>>)
    /\ current = 1

(***************************************************************************)
(* C7 as stated: every failure of parse() is an expect mismatch naming the *)
(* expected and the found token, or an unexpected token in expression      *)
(* position carrying the offending token.                                  *)
(***************************************************************************)
C7_TwoOrigins ==
    Done /\ ~ret.ok =>
        \/ ret.form = ExpectedFound /\ Len(ret.args) = 2
        \/ ret.form = UnexpectedToken /\ Len(ret.args) = 1

(***************************************************************************)
(* C7, amended: every failure of parse() has one of four origins, and the  *)
(* cursor is left on the offending token: an expect mismatch (of `be` or   *)
(* `then`) naming the expected and the found token; a token after `let`    *)
(* that is no identifier; a token after `define` that is no identifier;    *)
(* or a token in primary position that is no number, string or identifier, *)
(* carried in the message.                                                 *)
(***************************************************************************)
C7_FourOrigins ==
    Done /\ ~ret.ok =>
        \/ /\ ret.form = ExpectedFound
           /\ ret.args[1] \in {Tok("Be"), Tok("Then")}
           /\ ret.args[2] = current_token
           /\ ret.args[1].k # ret.args[2].k
        \/ /\ ret.form = ExpectedIdentifierAfterLet
           /\ ret.args = <<>>
           /\ current > 0
           /\ tokens[current].k = "Let"
           /\ current_token.k # "Identifier"
        \/ /\ ret.form = ExpectedFunctionName
           /\ ret.args = <<>>
           /\ current > 0
           /\ tokens[current].k = "Define"
           /\ current_token.k # "Identifier"
        \/ /\ ret.form = UnexpectedToken
           /\ ret.args = <<current_token>>
           /\ current_token.k \notin {"Number", "String", "Identifier"}

\* `define` followed by a token that is no identifier has failed with the
\* function-name error.
C7_Witness ==
    /\ Done
    /\ tokens = <<Tok("Define"), Tok("With")>>
    /\ ret = Err(ExpectedFunctionName, <<>>)

(***************************************************************************)
(* The reference grammar of expressions: a sequence of primaries           *)
(* alternating with binary operators is split at its last operator of the  *)
(* loosest level present (comparison, then + -, then * /).                 *)
(***************************************************************************)
PrimaryKinds == {"Number", "String", "Identifier"}

Alternates(toks) ==
    /\ Len(toks) % 2 = 1
    /\ \A i \in 1..Len(toks) :
        IF i % 2 = 1 THEN toks[i].k \in PrimaryKinds
                     ELSE toks[i].k \in OperatorKinds

Level(kind) ==
    CASE kind \in ComparisonKinds -> 1
      [] kind \in {"Plus", "Minus"} -> 2
      [] kind \in {"Multiply", "Divide"} -> 3

RefOperator(kind) ==
    CASE kind = "Plus" -> "Add"
      [] kind = "Minus" -> "Subtract"
      [] kind = "Multiply" -> "Multiply"
      [] kind = "Divide" -> "Divide"
      [] kind = "IsGreaterThan" -> "GreaterThan"
      [] kind = "IsLessThan" -> "LessThan"
      [] kind = "IsGreaterThanOrEqual" -> "GreaterThanOrEqual"
      [] kind = "IsLessThanOrEqual" -> "LessThanOrEqual"
      [] kind = "IsEqual" -> "Equal"
      [] kind = "IsNotEqual" -> "NotEqual"

RefPrimary(t) == [type |-> t.k, val |-> t.v]

RECURSIVE RefTree(_)
RefTree(toks) ==
    IF Len(toks) = 1 THEN RefPrimary(toks[1])
    ELSE LET ops == {i \in 1..Len(toks) : i % 2 = 0}
             loosest == CHOOSE i \in ops :
                          \A j \in ops : Level(toks[i].k) <= Level(toks[j].k)
             split == CHOOSE i \in ops :
                        /\ Level(toks[i].k) = Level(toks[loosest].k)
                        /\ \A j \in ops :
                             Level(toks[j].k) = Level(toks[i].k) => j <= i
         IN  [type |-> "BinaryOp",
              left |-> RefTree(SubSeq(toks, 1, split - 1)),
              operator |-> RefOperator(toks[split].k),
              right |-> RefTree(SubSeq(toks, split + 1, Len(toks)))]

(***************************************************************************)
(* C8: a token sequence that alternates primaries with binary operators    *)
(* parses to the tree of the reference grammar: * and / bind tighter than  *)
(* + and -, which bind tighter than the comparisons, and operators of one  *)
(* level nest to the left.                                                 *)
(***************************************************************************)
C8_ReferenceTree ==
    Done /\ Alternates(tokens) =>
        ret = Ok(Program(<<StmtExpression(RefTree(tokens))>>))

\* 1 + x * "s" (three primaries) has been parsed with the product as the
\* right operand of the sum.
C8_Witness ==
    /\ Done
    /\ tokens = ExpressionTokens(<<"Plus", "Multiply">>)
    /\ ret.ok
    /\ ret.val.statements[1].expr =
         BinaryOp(ExprNumber("1"), "Add",
                  BinaryOp(ExprIdentifier("2"), "Multiply", ExprString("3")))

(***************************************************************************)
(* The statements the lines of a block stand for.                          *)
(***************************************************************************)
StatementLines == Lines \ {<<Tok("End")>>}
StatementBodies == SeqsUpTo(StatementLines, MaxBody)

LineAst(line) ==
    IF line[1].k = "Show"
    THEN [type |-> "Show", value |-> [type |-> "Identifier", val |-> line[2].v]]
    ELSE [type |-> "Expression",
          expr |-> [type |-> "Identifier", val |-> line[1].v]]
Asts(body) == [i \in 1..Len(body) |-> LineAst(body[i])]
Condition == [type |-> "Identifier", val |-> "c"]

(***************************************************************************)
(* C4: a `when` whose then-block is opened by an indent and holds an       *)
(* `otherwise` at statement position, with or without a dedent before it,  *)
(* followed by an indented block: then_block is exactly the statements     *)
(* before `otherwise` and otherwise_block exactly those of the block after *)
(* it.                                                                     *)
(***************************************************************************)
C4_Cases ==
    {[toks |-> WhenHead(nl, TRUE, b1, d1) \o OtherwiseClause(nl, TRUE, b2, d2),
      then_block |-> Asts(b1), otherwise_block |-> Asts(b2)] :
        nl \in BOOLEAN, b1 \in StatementBodies, d1 \in BOOLEAN,
        b2 \in StatementBodies, d2 \in BOOLEAN}

C4_OtherwiseNotSwallowed ==
    Done /\ Len(tokens) > 0 /\ tokens[1].k = "When" =>
        \A c \in C4_Cases :
            tokens = c.toks =>
                ret = Ok(Program(<<[type |-> "When", condition |-> Condition,
                                    then_block |-> c.then_block,
                                    otherwise_block |->
                                        Some(c.otherwise_block)]>>))

\* when c then / indent / show a / otherwise (no dedent) / indent / b / dedent
\* has been parsed.
C4_Witness ==
    /\ Done
    /\ tokens = WhenHead(TRUE, TRUE, <<<<Tok("Show"), TokenIdentifier("a")>>>>, FALSE)
                  \o OtherwiseClause(TRUE, TRUE, <<<<TokenIdentifier("b")>>>>, TRUE)
    /\ ret.ok
    /\ ret.val.statements[1].then_block = <<StmtShow(ExprIdentifier("a"))>>
    /\ ret.val.statements[1].otherwise_block =
         Some(<<StmtExpression(ExprIdentifier("b"))>>)

(***************************************************************************)
(* C5: a `when` statement returns otherwise_block = None exactly when the  *)
(* token current after the then-block (and its optional dedent) is not     *)
(* `otherwise`; it returns Some of the empty sequence when `otherwise` is  *)
(* consumed and the token after the newlines that follow is no indent; and *)
(* None differs from Some of the empty sequence.                           *)
(***************************************************************************)
C5_NoneVersusEmpty ==
    [][(parse_when_statement_otherwise \/ parse_when_statement_otherwise_loop)
        /\ Len(stack') < Len(stack)
        => /\ ret'.ok
           /\ ret'.val.type = "When"
           /\ (ret'.val.otherwise_block = [tag |-> "None"])
                 <=> (Top.pc = "otherwise" /\ current_token.k # "Otherwise")
           /\ (/\ Top.pc = "otherwise"
               /\ current_token.k = "Otherwise"
               /\ TokenAt(skip_newlines(current + 1)).k # "Indent")
                 => ret'.val.otherwise_block = [tag |-> "Some", val |-> <<>>]
           /\ ret'.val.otherwise_block.tag \in {"None", "Some"}]_vars

\* `when c then otherwise` has been parsed: the clause is present and empty.
C5_Witness ==
    /\ Done
    /\ tokens = <<Tok("When"), TokenIdentifier("c"), Tok("Then"), Tok("Otherwise")>>
    /\ ret = Ok(Program(<<StmtWhen(ExprIdentifier("c"), <<>>, Some(<<>>))>>))

(***************************************************************************)
(* C6: a `define` with a parameter list and an indented body closed by a   *)
(* dedent parses, with and without an `end` after the dedent, to the same  *)
(* FunctionDef (name, parameters, body), and the whole parse succeeds.     *)
(***************************************************************************)
C6_Cases ==
    {[toks |-> DefineTokens(TRUE, ps, nl, TRUE, b, TRUE, e),
      parameters |-> [i \in 1..Len(ps) |-> ps[i].v], body |-> Asts(b)] :
        ps \in SeqsUpTo(ParameterTokens, MaxParams), nl \in BOOLEAN,
        b \in StatementBodies, e \in BOOLEAN}

TailAsts(tail) == IF tail = <<>> THEN <<>> ELSE <<LineAst(tail)>>

C9_Cases ==
    {[toks |-> WhenHead(nl, FALSE, b, FALSE) \o tail,
      program |-> <<[type |-> "When", condition |-> Condition,
                     then_block |-> <<>>, otherwise_block |-> [tag |-> "None"]]>>
                  \o Asts(b) \o TailAsts(tail)] :
        nl \in BOOLEAN, b \in StatementBodies, tail \in Tails}
    \cup
    {[toks |-> WhenHead(nl, TRUE, b1, d1) \o OtherwiseClause(nl, FALSE, b2, FALSE),
      program |-> <<[type |-> "When", condition |-> Condition,
                     then_block |-> Asts(b1),
                     otherwise_block |-> [tag |-> "Some", val |-> <<>>]]>>
                  \o Asts(b2)] :
        nl \in BOOLEAN, b1 \in StatementBodies, d1 \in BOOLEAN,
        b2 \in StatementBodies}
    \cup
    {[toks |-> DefineTokens(ps # <<>>, ps, TRUE, FALSE, b, FALSE, FALSE) \o tail,
      program |-> <<[type |-> "FunctionDef", name |-> "f",
                     parameters |-> [i \in 1..Len(ps) |-> ps[i].v],
                     body |-> <<>>]>>
                  \o Asts(b) \o TailAsts(tail)] :
        ps \in SeqsUpTo(ParameterTokens, MaxParams), b \in StatementBodies,
        tail \in Tails}

C9_EmptyBlock ==
    /\ [](Done /\ Len(tokens) > 0 /\ tokens[1].k \in {"When", "Define"} =>
            \A c \in C9_Cases :
                tokens = c.toks =>
                    ret = Ok([type |-> "Program", statements |-> c.program]))
    /\ [][parse_when_statement_condition /\ ret.ok /\ current_token.k = "Then"
            /\ TokenAt(skip_newlines(current + 1)).k # "Indent"
            => /\ Len(stack') = Len(stack)
               /\ Top'.pc = "otherwise"
               /\ Top'.loc.then_block = <<>>
               /\ current' = skip_newlines(current + 1)]_vars
    /\ [][parse_when_statement_otherwise /\ current_token.k = "Otherwise"
            /\ TokenAt(skip_newlines(current + 1)).k # "Indent"
            => /\ ret'.ok
               /\ ret'.val.otherwise_block = [tag |-> "Some", val |-> <<>>]
               /\ current' = skip_newlines(current + 1)]_vars
    /\ [][parse_function_def_body
            /\ TokenAt(skip_newlines(current)).k # "Indent"
            => /\ Len(stack') = Len(stack)
               /\ Top'.pc = "end"
               /\ Top'.loc.body = <<>>
               /\ current' = skip_newlines(current)]_vars

\* define f / newline / show a: the function has an empty body and `show a`
\* is its sibling.
C9_Witness ==
    /\ Done
    /\ tokens = <<Tok("Define"), TokenIdentifier("f"), Tok("Newline"),
                  Tok("Show"), TokenIdentifier("a"), Tok("Newline")>>
    /\ ret = Ok(Program(<<StmtFunctionDef("f", <<>>, <<>>),
                          StmtShow(ExprIdentifier("a"))>>))

(***************************************************************************)
(* C10: `end` at statement position of an indented function body stops the *)
(* body loop unconsumed and is then consumed by parse_function_def; at     *)
(* statement position of an indented then- or otherwise-block it stops     *)
(* nothing: the loop parses it as a statement and the parse fails with the *)
(* unexpected-token error on `end`.                                        *)
(***************************************************************************)
EndInWhenBlock ==
    /\ stack # <<>>
    /\ Top.fn = "parse_when_statement"
    /\ Top.pc \in {"then_loop", "otherwise_loop"}
    /\ current_token.k = "End"

C10_EndOnlyEndsFunctions ==
    /\ [][parse_function_def_body_loop /\ current_token.k = "End"
            => /\ Len(stack') = Len(stack)
               /\ Top'.pc = "end"
               /\ current' = current]_vars
    /\ [][parse_function_def_end /\ current_token.k = "End"
            => /\ ret'.ok
               /\ current' = current + 1]_vars
    /\ [][EndInWhenBlock
            => /\ Len(stack') = Len(stack) + 1
               /\ Top'.fn = "parse_statement"
               /\ current' = current]_vars
    /\ EndInWhenBlock ~>
            (Done /\ ret = Err(UnexpectedToken, <<Tok("End")>>))

\* A `when` nested as the last statement of a function body, its then-block
\* followed by `end` with no dedent: the parse has failed on `end`.
C10_Witness ==
    /\ Done
    /\ tokens = <<Tok("Define"), TokenIdentifier("f"), Tok("Newline"),
                  Tok("Indent"), Tok("When"), TokenIdentifier("c"),
                  Tok("Then"), Tok("Newline"), Tok("Indent"), Tok("Show"),
                  TokenIdentifier("a"), Tok("Newline"), Tok("End")>>
    /\ ret = Err(UnexpectedToken, <<Tok("End")>>)
    /\ current = 12

=============================================================================
